---- MODULE Spec2Model ----
(***************************************************************************)
(* The nsis-process plugin: FindProcess, FindProcessCurrentUser,           *)
(* KillProcess and KillProcessCurrentUser over a toolhelp snapshot of the  *)
(* process table, the token queries of get_sid and the terminations of     *)
(* kill.  The host pushes a name on the NSIS stack, calls one function,    *)
(* and pops the code the function pushed.                                  *)
(***************************************************************************)
EXTENDS Integers, Sequences, FiniteSets, TLC

\* ---------------------------------------------------------------- bounds
\* longest snapshot of the process table, and the number of process ids
MaxSnap == 3
\* code units of PROCESSENTRY32W.szExeFile (MAX_PATH in the real structure)
SzLen == 3
\* the host stops calling once this many handles have been left open
MaxOpenHandles == 1

Pids == 1..MaxSnap

\* ------------------------------------------------------------- the names
\* A string is a sequence of characters; szExeFile is NUL terminated.
Nul == "\\0"
Names == { <<"F", "o">>, <<"b", "a">> }
Queries == { <<"f", "o">>, <<"F", "O">> }

\* nsis_plugin_api::ZERO and ONE, the strings the functions push
ZERO == <<"0">>
ONE == <<"1">>

\* PROCESSENTRY32W.szExeFile: the name, then NULs up to the array's length
SzExeFile(n) == n \o [i \in 1..(SzLen - Len(n)) |-> Nul]

\* nsis_plugin_api::decode_utf16_lossy: the text before the first NUL
RECURSIVE decode_utf16_lossy(_)
decode_utf16_lossy(units) ==
    IF units = <<>> \/ Head(units) = Nul
    THEN <<>>
    ELSE <<Head(units)>> \o decode_utf16_lossy(Tail(units))

LowerChar(c) ==
    CASE c = "F" -> "f"
      [] c = "O" -> "o"
      [] c = "B" -> "b"
      [] c = "A" -> "a"
      [] OTHER -> c

\* str::to_lowercase
to_lowercase(s) == [i \in 1..Len(s) |-> LowerChar(s[i])]

\* --------------------------------------------------------- the enumerator
\* (the test without its comparison of process ids)
IsTargetAnyPid(entry, name, current_pid) ==
    to_lowercase(decode_utf16_lossy(entry.szExeFile)) = to_lowercase(name)

\* The test of lines 198-199 on one PROCESSENTRY32W.
IsTarget(entry, name, current_pid) ==
    /\ current_pid # entry.th32ProcessID
    /\ to_lowercase(decode_utf16_lossy(entry.szExeFile)) = to_lowercase(name)

\* The while loop of lines 197-203: Process32NextW delivers entry i, the
\* body tests it, and the loop ends when the snapshot is exhausted.
RECURSIVE Process32NextLoop(_, _, _, _)
Process32NextLoop(snap, i, name, current_pid) ==
    IF i > Len(snap)
    THEN <<>>
    ELSE (IF IsTarget(snap[i], name, current_pid)
          THEN <<snap[i].th32ProcessID>>
          ELSE <<>>)
         \o Process32NextLoop(snap, i + 1, name, current_pid)

\* get_processes: Process32FirstW reads the first entry into `process`
\* (and fails on an empty or unobtainable snapshot); the loop then calls
\* Process32NextW before it looks at `process`.
get_processes(name, snap, current_pid) ==
    IF Len(snap) = 0
    THEN <<>>
    ELSE Process32NextLoop(snap, 2, name, current_pid)

\* ------------------------------------------------- what the system answers
\* What OpenProcess, OpenProcessToken and the two GetTokenInformation calls
\* of get_sid do for a process: one of the four failures, or the user SID
\* of the process's token.
Sids == { "S-1-5-21-alice", "S-1-5-21-bob" }
TokenFailures == { "OpenProcessFailed", "OpenProcessTokenFailed",
                   "ZeroLength", "FetchFailed" }
TokenOutcomes == TokenFailures \cup Sids

\* What OpenProcess(PROCESS_TERMINATE) and TerminateProcess do for a process.
KillOutcomes == { "OpenProcessFailed", "TerminateFailed", "Terminated" }

NotAsked == "not asked"

\* ------------------------------------------------------ identity resolver
\* Line 162: vec![0u8; info_length].as_mut_ptr().  The Vec is a temporary of
\* the let statement and is dropped at its end; `info` keeps the address.
TokenInfoBuffer == [freed |-> TRUE]

\* get_sid for a process whose token queries end as `tok`.  sid is the SID
\* the second GetTokenInformation wrote behind `info`, freed tells whether
\* the allocation behind the returned pointer is gone, and acquired and
\* released count the handles of OpenProcess and OpenProcessToken.
get_sid(tok) ==
    LET handle == IF tok = "OpenProcessFailed" THEN 0 ELSE 1
        token_handle == IF tok \in {"OpenProcessFailed", "OpenProcessTokenFailed"}
                        THEN 0 ELSE 1
    IN  IF token_handle = 1
        THEN IF tok = "ZeroLength"
             THEN \* return sid, line 159
                  [some |-> FALSE, sid |-> NotAsked, freed |-> FALSE,
                   acquired |-> handle + token_handle, released |-> 0]
             ELSE IF tok = "FetchFailed"
             THEN \* return sid, line 172
                  [some |-> FALSE, sid |-> NotAsked, freed |-> FALSE,
                   acquired |-> handle + token_handle, released |-> 0]
             ELSE \* sid = Some((*info).User.Sid), then lines 178-181
                  [some |-> TRUE, sid |-> tok, freed |-> TokenInfoBuffer.freed,
                   acquired |-> handle + token_handle,
                   released |-> handle + token_handle]
        ELSE \* CloseHandle of a null handle releases nothing
             [some |-> FALSE, sid |-> NotAsked, freed |-> FALSE,
              acquired |-> handle, released |-> handle]

\* ---------------------------------------------------- identity comparator
\* EqualSid reads both SIDs through the pointers it is given.  A read of an
\* allocation that was freed yields whatever the heap holds by then: the
\* answer is `read`, any boolean.
EqualSid(user_sid, p_sid, read) ==
    IF user_sid.freed \/ p_sid.freed
    THEN read
    ELSE user_sid.sid = p_sid.sid

\* belongs_to_user: the result, the comparison EqualSid made (if any) and the
\* handles of the get_sid call.
belongs_to_user(user_sid, pid, answer) ==
    LET p_sid == get_sid(answer.tok)
    IN  [result |-> IF p_sid.some
                    THEN EqualSid(user_sid, p_sid, answer.eq)
                    ELSE FALSE,
         comparisons |-> IF p_sid.some
                         THEN << [pid |-> pid,
                                  user_freed |-> user_sid.freed,
                                  p_freed |-> p_sid.freed] >>
                         ELSE <<>>,
         open |-> p_sid.acquired - p_sid.released]

\* -------------------------------------------------------------- terminator
\* kill: a failed OpenProcess gives a null handle, on which TerminateProcess
\* fails and CloseHandle does nothing.
kill(term) ==
    LET handle == IF term = "OpenProcessFailed" THEN 0 ELSE 1
        success == handle = 1 /\ term = "Terminated"
    IN  [success |-> success, open |-> handle - handle]

\* ------------------------------------------------------------- the facade
\* processes.into_iter().map(kill).all(|b| b), lines 82 and 111: the adaptors
\* are lazy and all() stops at the first false.  attempts lists the calls of
\* kill that were made, in order, each with its result.
RECURSIVE MapKillAll(_, _)
MapKillAll(ps, answers) ==
    IF ps = <<>>
    THEN [all |-> TRUE, attempts |-> <<>>, open |-> 0]
    ELSE LET k == kill(answers[Head(ps)].term)
             here == << [pid |-> Head(ps), ok |-> k.success] >>
         IN  IF k.success
             THEN LET rest == MapKillAll(Tail(ps), answers)
                  IN  [all |-> rest.all,
                       attempts |-> here \o rest.attempts,
                       open |-> k.open + rest.open]
             ELSE [all |-> FALSE, attempts |-> here, open |-> k.open]

\* processes.into_iter().filter(belongs_to_user).map(kill).all(|b| b),
\* lines 105-109.
RECURSIVE FilterMapKillAll(_, _, _)
FilterMapKillAll(ps, user_sid, answers) ==
    IF ps = <<>>
    THEN [all |-> TRUE, attempts |-> <<>>, comparisons |-> <<>>, open |-> 0]
    ELSE LET pid == Head(ps)
             b == belongs_to_user(user_sid, pid, answers[pid])
         IN  IF ~b.result
             THEN LET rest == FilterMapKillAll(Tail(ps), user_sid, answers)
                  IN  [all |-> rest.all,
                       attempts |-> rest.attempts,
                       comparisons |-> b.comparisons \o rest.comparisons,
                       open |-> b.open + rest.open]
             ELSE LET k == kill(answers[pid].term)
                      here == << [pid |-> pid, ok |-> k.success] >>
                  IN  IF k.success
                      THEN LET rest == FilterMapKillAll(Tail(ps), user_sid, answers)
                           IN  [all |-> rest.all,
                                attempts |-> here \o rest.attempts,
                                comparisons |-> b.comparisons \o rest.comparisons,
                                open |-> b.open + k.open + rest.open]
                      ELSE [all |-> FALSE,
                            attempts |-> here,
                            comparisons |-> b.comparisons,
                            open |-> b.open + k.open]

\* processes.into_iter().any(|pid| belongs_to_user(user_sid, pid)), lines
\* 55-57: any() stops at the first true.
RECURSIVE AnyBelongs(_, _, _)
AnyBelongs(ps, user_sid, answers) ==
    IF ps = <<>>
    THEN [any |-> FALSE, comparisons |-> <<>>, open |-> 0]
    ELSE LET b == belongs_to_user(user_sid, Head(ps), answers[Head(ps)])
         IN  IF b.result
             THEN [any |-> TRUE, comparisons |-> b.comparisons, open |-> b.open]
             ELSE LET rest == AnyBelongs(Tail(ps), user_sid, answers)
                  IN  [any |-> rest.any,
                       comparisons |-> b.comparisons \o rest.comparisons,
                       open |-> b.open + rest.open]

\* The body of each function on the match set it got from get_processes:
\* the code it pushes, the kill calls and the EqualSid calls it made, and the
\* handles it left open.  user_tok is what get_sid(GetCurrentProcessId())
\* meets, answers what the system does for each matched process.
FindProcessBody(processes) ==
    [code |-> IF processes # <<>> THEN ZERO ELSE ONE,
     attempts |-> <<>>, comparisons |-> <<>>, open |-> 0]

FindProcessCurrentUserBody(processes, user_tok, answers) ==
    LET user_sid == get_sid(user_tok)
        mine == user_sid.acquired - user_sid.released
    IN  IF user_sid.some
        THEN LET r == AnyBelongs(processes, user_sid, answers)
             IN  [code |-> IF r.any THEN ZERO ELSE ONE,
                  attempts |-> <<>>,
                  comparisons |-> r.comparisons,
                  open |-> mine + r.open]
        ELSE [code |-> IF processes = <<>> THEN ONE ELSE ZERO,
              attempts |-> <<>>, comparisons |-> <<>>, open |-> mine]

\* (KillProcess without its is_empty test)
KillProcessBodyNoEmptyCheck(processes, answers) ==
    LET r == MapKillAll(processes, answers)
    IN  [code |-> IF r.all THEN ZERO ELSE ONE,
         attempts |-> r.attempts, comparisons |-> <<>>, open |-> r.open]

KillProcessBody(processes, answers) ==
    IF processes # <<>>
    THEN LET r == MapKillAll(processes, answers)
         IN  [code |-> IF r.all THEN ZERO ELSE ONE,
              attempts |-> r.attempts, comparisons |-> <<>>, open |-> r.open]
    ELSE [code |-> ONE, attempts |-> <<>>, comparisons |-> <<>>, open |-> 0]

\* (KillProcessCurrentUser taking an unresolved caller for a caller who owns
\* nothing: no kill, ONE)
KillProcessCurrentUserBodyNoFallback(processes, user_tok, answers) ==
    IF processes = <<>>
    THEN [code |-> ONE, attempts |-> <<>>, comparisons |-> <<>>, open |-> 0]
    ELSE LET user_sid == get_sid(user_tok)
             mine == user_sid.acquired - user_sid.released
         IN  IF user_sid.some
             THEN LET r == FilterMapKillAll(processes, user_sid, answers)
                  IN  [code |-> IF r.all THEN ZERO ELSE ONE,
                       attempts |-> r.attempts,
                       comparisons |-> r.comparisons,
                       open |-> mine + r.open]
             ELSE [code |-> ONE, attempts |-> <<>>, comparisons |-> <<>>,
                   open |-> mine]

KillProcessCurrentUserBody(processes, user_tok, answers) ==
    IF processes = <<>>
    THEN \* return push(ONE), line 101
         [code |-> ONE, attempts |-> <<>>, comparisons |-> <<>>, open |-> 0]
    ELSE LET user_sid == get_sid(user_tok)
             mine == user_sid.acquired - user_sid.released
         IN  IF user_sid.some
             THEN LET r == FilterMapKillAll(processes, user_sid, answers)
                  IN  [code |-> IF r.all THEN ZERO ELSE ONE,
                       attempts |-> r.attempts,
                       comparisons |-> r.comparisons,
                       open |-> mine + r.open]
             ELSE LET r == MapKillAll(processes, answers)
                  IN  [code |-> IF r.all THEN ZERO ELSE ONE,
                       attempts |-> r.attempts,
                       comparisons |-> <<>>,
                       open |-> mine + r.open]

\* -------------------------------------------------------------- the state
VARIABLES
    snapshot,     \* the process table CreateToolhelp32Snapshot captures
    currentPid,   \* GetCurrentProcessId()
    openHandles,  \* handles the plugin has acquired and not yet closed
    stack,        \* the NSIS stack shared with the host
    op,           \* the function whose result is on the stack, or "none"
    name,         \* the name that function popped
    processes,    \* what get_processes returned to it
    userTok,      \* what get_sid(GetCurrentProcessId()) met in it
    answers,      \* what the system did for each process it asked about
    attempts,     \* its calls of kill, in order, with their results
    comparisons   \* its calls of EqualSid, in order

vars == << snapshot, currentPid, openHandles, stack, op, name, processes,
           userTok, answers, attempts, comparisons >>

Entries == [th32ProcessID : Pids, szExeFile : {SzExeFile(n) : n \in Names}]

\* A snapshot lists each process once.
Snapshots ==
    { s \in UNION { [1..n -> Entries] : n \in 0..MaxSnap } :
        \A i, j \in 1..Len(s) :
            s[i].th32ProcessID = s[j].th32ProcessID => i = j }

Unasked == [tok |-> NotAsked, eq |-> FALSE, term |-> NotAsked]

\* The answers a function can meet for one matched process.  An answer that
\* is never asked for keeps its NotAsked value: the token queries when
\* get_sid is not called, the read of EqualSid when there is no SID to
\* compare, the termination when kill is not called.
KillAnswers == [tok : {NotAsked}, eq : {FALSE}, term : KillOutcomes]

OwnerAnswers ==
    [tok : TokenFailures, eq : {FALSE}, term : {NotAsked}]
        \cup [tok : Sids, eq : BOOLEAN, term : {NotAsked}]

OwnerKillAnswers ==
    [tok : TokenFailures, eq : {FALSE}, term : {NotAsked}]
        \cup [tok : Sids, eq : {FALSE}, term : {NotAsked}]
        \cup [tok : Sids, eq : {TRUE}, term : KillOutcomes]

Range(seq) == { seq[i] : i \in 1..Len(seq) }

\* The answers for the matched processes, NotAsked for every other process.
AnswersFor(ps, choices) ==
    { [p \in Pids |-> IF p \in Range(ps) THEN f[p] ELSE Unasked] :
        f \in [Range(ps) -> choices] }

Init ==
    /\ snapshot \in Snapshots
    /\ currentPid \in Pids
    /\ openHandles = 0
    /\ stack = <<>>
    /\ op = "none"
    /\ name = <<>>
    /\ processes = <<>>
    /\ userTok = NotAsked
    /\ answers = [p \in Pids |-> Unasked]
    /\ attempts = <<>>
    /\ comparisons = <<>>

\* The host pushes the name of the executable before it calls a function.
HostPush ==
    /\ stack = <<>>
    /\ op = "none"
    /\ openHandles < MaxOpenHandles
    /\ \E q \in Queries : stack' = <<q>>
    /\ UNCHANGED << snapshot, currentPid, openHandles, op, name, processes,
                    userTok, answers, attempts, comparisons >>

\* popstr(): a name is on the stack.
CanCall == stack # <<>> /\ op = "none"

\* What a call leaves behind: the popped name, the match set, the answers it
\* met, and body.code pushed in place of the name.  The snapshot handle of
\* get_processes is closed at line 206 on its only path, so the handles left
\* open are those of get_sid and kill, body.open.
Returns(fn, ps, ut, ans, body) ==
    /\ op' = fn
    /\ name' = Head(stack)
    /\ processes' = ps
    /\ userTok' = ut
    /\ answers' = ans
    /\ attempts' = body.attempts
    /\ comparisons' = body.comparisons
    /\ openHandles' = openHandles + body.open
    /\ stack' = <<body.code>> \o Tail(stack)
    /\ UNCHANGED << snapshot, currentPid >>

FindProcess ==
    /\ CanCall
    /\ LET ps == get_processes(Head(stack), snapshot, currentPid)
       IN  Returns("FindProcess", ps, NotAsked, [p \in Pids |-> Unasked],
                   FindProcessBody(ps))

FindProcessCurrentUser ==
    /\ CanCall
    /\ LET ps == get_processes(Head(stack), snapshot, currentPid)
       IN  \E ut \in TokenOutcomes :
             \E ans \in AnswersFor(ps, IF ut \in Sids
                                       THEN OwnerAnswers ELSE {Unasked}) :
               Returns("FindProcessCurrentUser", ps, ut, ans,
                       FindProcessCurrentUserBody(ps, ut, ans))

KillProcess ==
    /\ CanCall
    /\ LET ps == get_processes(Head(stack), snapshot, currentPid)
       IN  \E ans \in AnswersFor(ps, KillAnswers) :
             Returns("KillProcess", ps, NotAsked, ans, KillProcessBody(ps, ans))

KillProcessCurrentUser ==
    /\ CanCall
    /\ LET ps == get_processes(Head(stack), snapshot, currentPid)
       IN  \E ut \in (IF ps = <<>> THEN {NotAsked} ELSE TokenOutcomes) :
             \E ans \in AnswersFor(ps, IF ut \in Sids
                                       THEN OwnerKillAnswers ELSE KillAnswers) :
               Returns("KillProcessCurrentUser", ps, ut, ans,
                       KillProcessCurrentUserBody(ps, ut, ans))

\* The host pops the code; the record of the call ends with it.
HostPop ==
    /\ op # "none"
    /\ stack' = Tail(stack)
    /\ op' = "none"
    /\ name' = <<>>
    /\ processes' = <<>>
    /\ userTok' = NotAsked
    /\ answers' = [p \in Pids |-> Unasked]
    /\ attempts' = <<>>
    /\ comparisons' = <<>>
    /\ UNCHANGED << snapshot, currentPid, openHandles >>

Next ==
    \/ HostPush
    \/ FindProcess
    \/ FindProcessCurrentUser
    \/ KillProcess
    \/ KillProcessCurrentUser
    \/ HostPop

Spec == Init /\ [][Next]_vars

\* ------------------------------------------------------------ properties
\* The code on top of the stack once a function has returned.
Pushed == Head(stack)

AttemptedPids == { attempts[i].pid : i \in 1..Len(attempts) }

TerminatedPids == { attempts[i].pid : i \in { j \in 1..Len(attempts) : attempts[j].ok } }

\* The matched processes whose token resolves to the caller's SID.
Owned == { p \in Range(processes) : answers[p].tok \in Sids /\ answers[p].tok = userTok }

CallerResolved == userTok \in Sids

\* The matched processes the filter of line 107 lets through.
Filtered ==
    { p \in Range(processes) :
        belongs_to_user(get_sid(userTok), p, answers[p]).result }

\* Equality of two names up to the case of their letters.
SameNameIgnoringCase(a, b) ==
    /\ Len(a) = Len(b)
    /\ \A i \in 1..Len(a) : LowerChar(a[i]) = LowerChar(b[i])

\* The ids of all entries of snap, first to last, that carry the name and
\* are not the caller.
RECURSIVE MatchingIds(_, _, _)
MatchingIds(snap, n, self) ==
    IF snap = <<>>
    THEN <<>>
    ELSE (IF /\ Head(snap).th32ProcessID # self
             /\ SameNameIgnoringCase(decode_utf16_lossy(Head(snap).szExeFile), n)
          THEN <<Head(snap).th32ProcessID>>
          ELSE <<>>)
         \o MatchingIds(Tail(snap), n, self)

\* C1: with the caller's identity resolved, KillProcessCurrentUser pushes 0
\* exactly when some matched process is owned by the caller and every owned
\* matched process was terminated.
C1_KillOwnedSucceedsIffOwnedAllTerminated ==
    (op = "KillProcessCurrentUser" /\ CallerResolved)
        => (Pushed = ZERO <=> (Owned # {} /\ Owned \subseteq TerminatedPids))

\* C2: a kill function attempts every process of its (filtered) match set,
\* whatever the earlier attempts returned.
C2_EveryMatchedProcessIsAttempted ==
    /\ op = "KillProcess" => Range(processes) \subseteq AttemptedPids
    /\ (op = "KillProcessCurrentUser" /\ ~CallerResolved)
           => Range(processes) \subseteq AttemptedPids
    /\ (op = "KillProcessCurrentUser" /\ CallerResolved)
           => Filtered \subseteq AttemptedPids

\* C3: get_processes returns the ids of all snapshot entries, first to last,
\* whose name equals the query up to case and whose id is not the caller's,
\* in snapshot order.
C3_MatchSetIsAllMatchingEntries ==
    op # "none" => processes = MatchingIds(snapshot, name, currentPid)

\* C4: the caller's own process id is in no match set and no function calls
\* kill on it.
C4_CallerNeverMatchedNorKilled ==
    /\ currentPid \notin Range(processes)
    /\ currentPid \notin AttemptedPids

\* C4 witness: a kill function has run on a snapshot that lists the caller,
\* after the first entry, under the queried name, and it called kill.
C4_Witness ==
    /\ op \in {"KillProcess", "KillProcessCurrentUser"}
    /\ attempts # <<>>
    /\ \E i \in 2..Len(snapshot) :
          /\ snapshot[i].th32ProcessID = currentPid
          /\ SameNameIgnoringCase(decode_utf16_lossy(snapshot[i].szExeFile), name)

\* C5: every handle a function acquires is closed when it returns, so no
\* handle is ever left open between calls.
C5_NoHandleLeftOpen ==
    openHandles = 0

\* C6: KillProcess pushes 0 exactly when its match set is not empty and the
\* termination of every process in it succeeds; a failed attempt means 1.
C6_KillAnySucceedsIffNonEmptyAndAllTerminate ==
    op = "KillProcess" =>
        /\ Pushed = ZERO <=>
              /\ processes # <<>>
              /\ \A p \in Range(processes) : answers[p].term = "Terminated"
        /\ (\E i \in 1..Len(attempts) : ~attempts[i].ok) => Pushed = ONE
        /\ Pushed \in {ZERO, ONE}

\* C6 witness: KillProcess terminated one process, failed on the next and
\* pushed 1.
C6_Witness ==
    /\ op = "KillProcess"
    /\ Len(attempts) = 2
    /\ attempts[1].ok
    /\ ~attempts[2].ok
    /\ Pushed = ONE

\* C7: with the caller's identity unresolved, FindProcessCurrentUser pushes
\* what FindProcess pushes, and KillProcessCurrentUser pushes what
\* KillProcess pushes and calls kill on the same processes with the same
\* results, for the same snapshot, name and termination outcomes.
C7_UnresolvedCallerDegradesToUnrestricted ==
    LET ps == get_processes(name, snapshot, currentPid)
    IN  /\ (op = "FindProcessCurrentUser" /\ ~CallerResolved)
            => /\ Pushed = FindProcessBody(ps).code
               /\ attempts = FindProcessBody(ps).attempts
        /\ (op = "KillProcessCurrentUser" /\ ~CallerResolved)
            => /\ Pushed = KillProcessBody(ps, answers).code
               /\ attempts = KillProcessBody(ps, answers).attempts

\* C7 witness: KillProcessCurrentUser could not resolve the caller, killed two
\* processes and pushed 0.
C7_Witness ==
    /\ op = "KillProcessCurrentUser"
    /\ userTok \in TokenFailures
    /\ Len(attempts) = 2
    /\ Pushed = ZERO

\* C8: with the caller's identity resolved, KillProcessCurrentUser calls
\* kill only on matched processes whose identity resolves to the caller's.
C8_KillOwnedAttemptsOnlyOwned ==
    (op = "KillProcessCurrentUser" /\ CallerResolved)
        => AttemptedPids \subseteq Owned

\* C9: with the caller's identity resolved, FindProcessCurrentUser pushes 0
\* exactly when some matched process is owned by the caller, and calls kill
\* on nothing.
C9_FindOwnedSucceedsIffSomeOwned ==
    (op = "FindProcessCurrentUser" /\ CallerResolved)
        => /\ Pushed = ZERO <=> Owned # {}
           /\ attempts = <<>>

\* C10: whenever EqualSid reads an identity, the buffer get_sid fetched it
\* into is still allocated, for the caller's identity and for the target's.
C10_ComparedIdentitiesAreLive ==
    \A i \in 1..Len(comparisons) :
        ~comparisons[i].user_freed /\ ~comparisons[i].p_freed

====
